---- MODULE Spec2Model ----
(***************************************************************************)
(* folly::Baton<MayBlock> (folly/synchronization/Baton.h): one atomic      *)
(* word state_, one producer calling post(), one consumer calling a        *)
(* wait-family operation, an observer calling ready(), and reset() between *)
(* lifetimes.  Every atomic access of the source is one step.              *)
(*                                                                         *)
(* The futex (futexWaitUntil / futexWake) and the spin helpers             *)
(* (spin_pause_until / spin_yield_until) are collaborators whose code is   *)
(* not part of the modelled file; they follow their interface contract.    *)
(***************************************************************************)
EXTENDS Integers, FiniteSets, Sequences, TLC

\* ---- enum State (Baton.h:299-305)
INIT == 0
EARLY_DELIVERY == 1
WAITING == 2
LATE_DELIVERY == 3
TIMED_OUT == 4

States == {INIT, EARLY_DELIVERY, WAITING, LATE_DELIVERY, TIMED_OUT}

\* ---- bounds of the model
MaxNow == 2        \* the steady clock runs over 0..MaxNow
MaxStale == 1      \* futexWake calls of an earlier lifetime still in flight
MaxCalls == 2      \* post() calls, and wait-family calls, made in one lifetime

\* std::chrono::steady_clock::time_point::max(), the deadline of wait()
TimeMax == 1000

Times == 0..MaxNow
Deadlines == 0..(MaxNow + 1)
Timeouts == (-1)..1

WaitKinds == {"wait", "try_wait_for", "try_wait_until"}

VARIABLES
    MayBlock,    \* template parameter of the instance
    state_,      \* detail::Futex<Atom> state_
    rel,         \* the value in state_ was written by a release store of post()
    now,         \* steady clock
    ppc,         \* producer: position inside post()
    before,      \* producer: local of post()
    cpc,         \* consumer: position inside the wait-family call
    kind,        \* consumer: which wait-family entry point was called
    timeout,     \* consumer: argument of try_wait_for
    deadline,    \* consumer: deadline handed to tryWaitSlow
    expected,    \* consumer: local of tryWaitSlow (CAS)
    rv,          \* consumer: result of futexWaitUntil
    s,           \* consumer: local of try_wait / tryWaitSlow
    result,      \* consumer: value returned by the wait-family call
    sync,        \* consumer: has acquired a release store of post()
    staleWakes,  \* futexWake calls owed by post() of an earlier lifetime
    rdy,         \* observer: value returned by the last ready() call
    aborted,     \* the assertion that failed, or "none"
    alive,       \* the destructor has not run
    hist         \* record of what happened in this lifetime (observation only)

vars == <<MayBlock, state_, rel, now, ppc, before, cpc, kind, timeout,
          deadline, expected, rv, s, result, sync, staleWakes, rdy, aborted,
          alive, hist>>

pvars == <<ppc, before>>
cvars == <<cpc, kind, timeout, deadline, expected, rv, s, result, sync>>

\* ---- observation of a reset() or destructor call: the state it loaded,
\* whether a futexWake of post() was still due, whether its assertion passed
NoReset == [op |-> "none", st |-> INIT, owed |-> FALSE, accepted |-> FALSE]

\* ---- observation record, cleared by reset()
HistInit ==
    [ delivered    |-> FALSE,   \* post() stored EARLY_DELIVERY or LATE_DELIVERY
      deliveredAtDecision |-> FALSE, \* ... before the wait decided to time out
      wakes        |-> 0,       \* futexWake calls issued by this lifetime's post()
      wakeBeforeWaiting |-> FALSE, \* a wake was issued before WAITING was published
      wakeAfterTimedOut |-> FALSE, \* a wake was issued after TIMED_OUT was recorded
      parkCalls    |-> FALSE,   \* futexWaitUntil was invoked
      blocked      |-> FALSE,   \* the consumer actually slept in futexWaitUntil
      spun         |-> FALSE,   \* a spin helper was entered
      cwrote       |-> FALSE,   \* the consumer wrote state_
      sawWaiting   |-> FALSE,   \* state_ has held WAITING
      sawTimedOut  |-> FALSE,   \* state_ has held TIMED_OUT
      postBeforeWait |-> FALSE, \* post() had returned when the wait was called
      postAtCall   |-> "none",  \* position of post() when the wait was called
      expiredAtCall |-> FALSE,  \* the deadline had passed when the wait was called
      casLate      |-> FALSE,   \* CAS INIT->WAITING attempted after the deadline
      timeoutPhase |-> "none",  \* "spin" or "park": where the wait timed out
      postAfterTimeout |-> "none", \* phase of the timeout post() started after
      stateAtPost  |-> INIT,    \* state_ when post() was called
      badEdge      |-> FALSE,   \* state_ changed along an edge outside the table
      reset        |-> NoReset, \* the reset() or destructor call just made
      misreset     |-> FALSE,   \* reset() ran while a call was in progress
      reborn       |-> FALSE,   \* this lifetime was started by reset()
      posts        |-> 0,       \* calls of post() in this lifetime
      waits        |-> 0,       \* wait-family calls made in this lifetime
      wroteAtCall  |-> FALSE,   \* cwrote when the latest wait was called
      tried        |-> FALSE,   \* a try_wait() of this lifetime gave false
      spinEnd      |-> "none",  \* what the spin helper reported last
      nested       |-> FALSE ]  \* post() was called from within post()

TypeOK ==
    /\ MayBlock \in BOOLEAN
    /\ state_ \in States
    /\ rel \in BOOLEAN
    /\ now \in Times
    /\ staleWakes \in 0..MaxStale
    /\ sync \in BOOLEAN

\* variant: ready() that recognises EARLY_DELIVERY only
Ready_EarlyOnly(st) == st = EARLY_DELIVERY

\* variant: ready() that takes every state after INIT for a delivery
Ready_NotInit(st) == st # INIT

\* ---- ready() (Baton.h:109-112): the value computed from the loaded word
Ready(st) == st = EARLY_DELIVERY \/ st = LATE_DELIVERY

\* ---- the transition table of state_ within one lifetime
TableEdge(a, b) ==
    \/ a = INIT /\ b = EARLY_DELIVERY
    \/ a = INIT /\ b = WAITING
    \/ a = WAITING /\ b = LATE_DELIVERY
    \/ a = WAITING /\ b = TIMED_OUT

\* observation of a write of state_ (new value b over a)
Note(h, a, b) ==
    [h EXCEPT !.sawWaiting = @ \/ b = WAITING,
              !.sawTimedOut = @ \/ b = TIMED_OUT,
              !.delivered = @ \/ Ready(b),
              !.badEdge = @ \/ (a # b /\ ~TableEdge(a, b))]

\* variant: try_wait() that compares with the wrong delivery state
TryWaitResult_Late(st) == st = LATE_DELIVERY

\* variant: try_wait() that reports a post whenever its assertion passes
TryWaitResult_Always(st) == st = INIT \/ st = EARLY_DELIVERY

\* try_wait(): return s == EARLY_DELIVERY (Baton.h:224)
TryWaitResult(st) == st = EARLY_DELIVERY

\* variant: try_wait_for() that subtracts the timeout
TryWaitForDeadline_Sub(n, t) == n - t

\* try_wait_for(): deadline = steady_clock::now() + timeout (Baton.h:249)
TryWaitForDeadline(n, t) == n + t

\* variant: post() without the early return on TIMED_OUT
PostDropped_Never(b) == FALSE

\* post(): if (before == TIMED_OUT) return; (Baton.h:176)
PostDropped(b) == b = TIMED_OUT

\* variant: tryWaitSlow() that takes every return of the park operation
\* for a delivery
ReloadDelivered_Any(st) == TRUE

\* tryWaitSlow(): if (s == LATE_DELIVERY) return true; (Baton.h:407)
ReloadDelivered(st) == st = LATE_DELIVERY

\* variant: tryWaitSlow() without the spin-only branch
AfterSpinPause_Cas(mb) == "cas"

\* tryWaitSlow(): if (!MayBlock) after the first spin phase (Baton.h:328)
AfterSpinPause(mb) == IF mb THEN "cas" ELSE "spin_yield"

\* Clock::now() >= deadline; the deadline of wait() is never reached
Passed(d) == d # TimeMax /\ now >= d

\* no assertion has ended the process and the baton has not been destroyed
Running == aborted = "none" /\ alive

\* the observer has not called ready() in this lifetime
NoReady == [called |-> FALSE, val |-> FALSE, st |-> INIT, afterPost |-> FALSE,
            afterWait |-> FALSE, fresh |-> FALSE, timedOut |-> FALSE]

Init ==
    /\ MayBlock \in BOOLEAN
    /\ state_ = INIT
    /\ rel = FALSE
    /\ now = 0
    /\ ppc = "idle"
    /\ before = INIT
    /\ cpc = "idle"
    /\ kind = "wait"
    /\ timeout = 0
    /\ deadline = TimeMax
    /\ expected = INIT
    /\ rv = "none"
    /\ s = INIT
    /\ result = FALSE
    /\ sync = FALSE
    /\ staleWakes = 0
    /\ rdy = NoReady
    /\ aborted = "none"
    /\ alive = TRUE
    /\ hist = HistInit

\* ---- detail::futexWake(&state_, 1): wakes the thread parked on state_, if any
FutexWake ==
    IF cpc = "parked"
    THEN /\ cpc' = "check_rv"
         /\ rv' = "woken"
    ELSE UNCHANGED <<cpc, rv>>

(***************************************************************************)
(* post()                                                                  *)
(***************************************************************************)
PostEnter ==
    /\ Running
    /\ ppc' = IF MayBlock THEN "load" ELSE "spin_assert"
    /\ hist' = [hist EXCEPT
                  !.reset = NoReset,
                  !.posts = @ + 1,
                  !.stateAtPost = state_,
                  !.postAfterTimeout =
                      IF cpc = "returned" /\ ~result THEN hist.timeoutPhase
                      ELSE "none"]
    /\ UNCHANGED <<alive, MayBlock, state_, rel, now, before, cvars, staleWakes,
                   rdy, aborted>>

\* the one post() of a lifetime is called
PostCall == ppc = "idle" /\ PostEnter

\* variant: a spin-only assertion that admits INIT only
PostSpinAssertOk_InitOnly(st) == st = INIT

\* spin-only post(): assert(((1 << state_) & ((1 << INIT) |
\* (1 << EARLY_DELIVERY))) != 0) (Baton.h:152-154)
PostSpinAssertOk(st) == st = INIT \/ st = EARLY_DELIVERY

\* spin-only version: assert on a relaxed load
PostSpinAssert ==
    /\ Running
    /\ ppc = "spin_assert"
    /\ IF PostSpinAssertOk(state_)
       THEN ppc' = "spin_store" /\ aborted' = aborted
       ELSE ppc' = ppc /\ aborted' = "post:152"
    /\ UNCHANGED <<alive, MayBlock, state_, rel, now, before, cvars, staleWakes,
                   rdy, hist>>

\* spin-only version: state_.store(EARLY_DELIVERY, release)
PostSpinStore ==
    /\ Running
    /\ ppc = "spin_store"
    /\ state_' = EARLY_DELIVERY
    /\ rel' = TRUE
    /\ ppc' = "done"
    /\ hist' = Note(hist, state_, EARLY_DELIVERY)
    /\ UNCHANGED <<alive, MayBlock, now, before, cvars, staleWakes, rdy, aborted>>

\* variant: an assertion that does not admit TIMED_OUT
PostLoadAssert_NoTimedOut(b) == b = INIT \/ b = WAITING

\* post(): assert(before == INIT || before == WAITING || before == TIMED_OUT)
\* (Baton.h:163)
PostLoadAssert(b) == b = INIT \/ b = WAITING \/ b = TIMED_OUT

\* before = state_.load(acquire); assert(INIT, WAITING or TIMED_OUT)
PostLoad ==
    /\ Running
    /\ ppc = "load"
    /\ before' = state_
    /\ IF PostLoadAssert(state_)
       THEN ppc' = "cas" /\ aborted' = aborted
       ELSE ppc' = ppc /\ aborted' = "post:163"
    /\ UNCHANGED <<alive, MayBlock, state_, rel, now, cvars, staleWakes, rdy, hist>>

\* variant: post() that goes on to futexWake after a successful CAS
AfterEarlyCas_Wake == "wake"

\* post(): return after the CAS INIT->EARLY_DELIVERY succeeded (Baton.h:171)
AfterEarlyCas == "done"

\* if (before == INIT && CAS(before, EARLY_DELIVERY)) return;
\* assert(WAITING or TIMED_OUT); if (before == TIMED_OUT) return;
PostCas ==
    /\ Running
    /\ ppc = "cas"
    /\ IF before = INIT /\ state_ = INIT
       THEN /\ state_' = EARLY_DELIVERY
            /\ rel' = TRUE
            /\ ppc' = AfterEarlyCas
            /\ hist' = Note(hist, state_, EARLY_DELIVERY)
            /\ UNCHANGED <<before, aborted>>
       ELSE /\ before' = IF before = INIT THEN state_ ELSE before
            /\ IF before' \notin {WAITING, TIMED_OUT}
               THEN ppc' = ppc /\ aborted' = "post:174"
               ELSE /\ aborted' = aborted
                    /\ ppc' = IF PostDropped(before') THEN "done" ELSE "store"
            /\ UNCHANGED <<state_, rel, hist>>
    /\ UNCHANGED <<alive, MayBlock, now, cvars, staleWakes, rdy>>

\* variant: post() that holds its store back until the consumer sleeps
PostStore_AwaitParked ==
    /\ Running
    /\ ppc = "store"
    /\ cpc = "parked"
    /\ state_' = LATE_DELIVERY
    /\ rel' = TRUE
    /\ ppc' = "wake"
    /\ hist' = Note(hist, state_, LATE_DELIVERY)
    /\ UNCHANGED <<alive, MayBlock, now, before, cvars, staleWakes, rdy, aborted>>

\* state_.store(LATE_DELIVERY, release)
PostStore ==
    /\ Running
    /\ ppc = "store"
    /\ state_' = LATE_DELIVERY
    /\ rel' = TRUE
    /\ ppc' = "wake"
    /\ hist' = Note(hist, state_, LATE_DELIVERY)
    /\ UNCHANGED <<alive, MayBlock, now, before, cvars, staleWakes, rdy, aborted>>

\* variant: post() that returns after the store without calling futexWake
PostWake_NoWake ==
    /\ Running
    /\ ppc = "wake"
    /\ ppc' = "done"
    /\ UNCHANGED <<alive, MayBlock, state_, rel, now, before, cvars, staleWakes,
                   rdy, aborted, hist>>

\* detail::futexWake(&state_, 1)
PostWake ==
    /\ Running
    /\ ppc = "wake"
    /\ FutexWake
    /\ ppc' = "done"
    /\ hist' = [hist EXCEPT !.wakes = @ + 1,
                            !.wakeBeforeWaiting = @ \/ ~hist.sawWaiting,
                            !.wakeAfterTimedOut = @ \/ hist.sawTimedOut]
    /\ UNCHANGED <<alive, MayBlock, state_, rel, now, before, kind, timeout,
                   deadline, expected, s, result, sync, staleWakes, rdy,
                   aborted>>

(***************************************************************************)
(* The spin helpers.  Each returns the set of results one poll may give:   *)
(* "again" stands for another iteration of the helper's loop.              *)
(***************************************************************************)
\* detail::spin_pause_until(deadline, opt, ready): polls ready(), then the
\* clock; reports advance when the spin budget of opt is used up (at once
\* when the budget is zero).
SpinPauseUntil(st, d) ==
    {"advance"} \cup
        (IF Ready(st) THEN {"success"}
         ELSE IF Passed(d) THEN {"timeout"}
         ELSE {"again"})

\* detail::spin_yield_until(deadline, ready): yields until ready() or the
\* deadline; it has no budget and does not report advance.
SpinYieldUntil(st, d) ==
    IF Ready(st) THEN {"success"}
    ELSE IF Passed(d) THEN {"timeout"}
    ELSE {"again"}

\* variant: wait() that takes the current time for its deadline
WaitDeadline_Now(n) == n

\* wait(): deadline = time_point::max() (Baton.h:204)
WaitDeadline(n) == TimeMax

(***************************************************************************)
(* wait(), try_wait_for(), try_wait_until() and tryWaitSlow()              *)
(***************************************************************************)
\* the call of a wait-family entry point: k the entry point, d the deadline
\* argument of try_wait_until, t the timeout argument of try_wait_for
WaitEnter(k, d, t) ==
    /\ Running
    /\ cpc' = "try_wait"
    /\ kind' = k
    /\ timeout' = IF k = "try_wait_for" THEN t ELSE 0
    /\ deadline' = IF k = "try_wait_until" THEN d ELSE WaitDeadline(now)
    /\ hist' = [hist EXCEPT
                  !.reset = NoReset,
                  !.waits = @ + 1,
                  !.wroteAtCall = hist.cwrote,
                  !.postBeforeWait = (ppc = "done"),
                  !.postAtCall = ppc,
                  !.expiredAtCall =
                      \/ k = "try_wait_until" /\ now >= d
                      \/ k = "try_wait_for" /\ t <= 0]
    /\ UNCHANGED <<alive, MayBlock, state_, rel, now, pvars, expected, rv, s,
                   result, sync, staleWakes, rdy, aborted>>

\* the one wait-family call of a lifetime is made
WaitCall(k, d, t) == cpc = "idle" /\ WaitEnter(k, d, t)

\* variant: try_wait() whose assertion admits INIT only
TryWaitAssert_InitOnly(st) == st = INIT

\* try_wait(): assert(s == INIT || s == EARLY_DELIVERY) (Baton.h:223)
TryWaitAssert(st) == st = INIT \/ st = EARLY_DELIVERY

\* try_wait() as the first statement of the entry point, then the deadline
\* computed by the entry point and the call of tryWaitSlow
TryWait ==
    /\ Running
    /\ cpc = "try_wait"
    /\ s' = state_
    /\ sync' = (sync \/ rel)
    /\ IF ~TryWaitAssert(state_)
       THEN /\ aborted' = "try_wait:223"
            /\ UNCHANGED <<cpc, result, deadline, hist>>
       ELSE /\ aborted' = aborted
            /\ IF TryWaitResult(state_)
               THEN /\ cpc' = "returned"
                    /\ result' = TRUE
                    /\ UNCHANGED <<deadline, hist>>
               ELSE /\ cpc' = "spin_pause"
                    /\ result' = result
                    /\ deadline' = IF kind = "try_wait_for"
                                   THEN TryWaitForDeadline(now, timeout)
                                   ELSE deadline
                    /\ hist' = [hist EXCEPT !.spun = TRUE]
    /\ UNCHANGED <<alive, MayBlock, state_, rel, now, pvars, kind, timeout,
                   expected, rv, staleWakes, rdy>>

\* try_wait() called on its own, before the wait-family call of the
\* lifetime: s = state_.load(acquire); assert; return s == EARLY_DELIVERY.
\* A call that returns true is the wait of the lifetime.
TryWaitCall ==
    /\ Running
    /\ cpc = "idle"
    /\ kind' = "try_wait"
    /\ s' = state_
    /\ sync' = (sync \/ rel)
    /\ IF ~TryWaitAssert(state_)
       THEN /\ aborted' = "try_wait:223"
            /\ UNCHANGED <<cpc, result, hist>>
       ELSE /\ aborted' = aborted
            /\ result' = TryWaitResult(state_)
            /\ cpc' = IF TryWaitResult(state_) THEN "returned" ELSE "idle"
            /\ hist' = [hist EXCEPT !.reset = NoReset,
                                    !.tried = @ \/ ~TryWaitResult(state_)]
    /\ UNCHANGED <<alive, MayBlock, state_, rel, now, pvars, timeout, deadline,
                   expected, rv, staleWakes, rdy>>

\* the spin helper or the park operation reports timeout in phase ph
TimeoutNote(h, ph) ==
    [h EXCEPT !.timeoutPhase = ph,
              !.deliveredAtDecision = h.delivered]

\* variant: a spin phase that publishes TIMED_OUT when it times out
SpinPause_StoreTimedOut ==
    /\ Running
    /\ cpc = "spin_pause"
    /\ \E r \in SpinPauseUntil(state_, deadline) :
         /\ sync' = IF r = "advance" THEN sync ELSE (sync \/ rel)
         /\ CASE r = "success" ->
                   /\ cpc' = "returned"
                   /\ result' = TRUE
                   /\ hist' = [hist EXCEPT !.spinEnd = r]
                   /\ UNCHANGED <<state_, rel>>
              [] r = "timeout" ->
                   /\ cpc' = "returned"
                   /\ result' = FALSE
                   /\ state_' = TIMED_OUT
                   /\ rel' = FALSE
                   /\ hist' = [Note(TimeoutNote(hist, "spin"), state_, TIMED_OUT)
                                EXCEPT !.spinEnd = r, !.cwrote = TRUE]
              [] r = "advance" ->
                   /\ cpc' = AfterSpinPause(MayBlock)
                   /\ result' = result
                   /\ hist' = [hist EXCEPT !.spinEnd = r]
                   /\ UNCHANGED <<state_, rel>>
              [] r = "again" -> UNCHANGED <<cpc, result, hist, state_, rel>>
    /\ UNCHANGED <<alive, MayBlock, now, pvars, kind, timeout,
                   deadline, expected, rv, s, staleWakes, rdy, aborted>>

\* switch (spin_pause_until(...)) and, on advance, if (!MayBlock)
SpinPause ==
    /\ Running
    /\ cpc = "spin_pause"
    /\ \E r \in SpinPauseUntil(state_, deadline) :
         /\ sync' = IF r = "advance" THEN sync ELSE (sync \/ rel)
         /\ CASE r = "success" ->
                   /\ cpc' = "returned"
                   /\ result' = TRUE
                   /\ hist' = [hist EXCEPT !.spinEnd = r]
              [] r = "timeout" ->
                   /\ cpc' = "returned"
                   /\ result' = FALSE
                   /\ hist' = [TimeoutNote(hist, "spin") EXCEPT !.spinEnd = r]
              [] r = "advance" ->
                   /\ cpc' = AfterSpinPause(MayBlock)
                   /\ result' = result
                   /\ hist' = [hist EXCEPT !.spinEnd = r]
              [] r = "again" -> UNCHANGED <<cpc, result, hist>>
    /\ UNCHANGED <<alive, MayBlock, state_, rel, now, pvars, kind, timeout,
                   deadline, expected, rv, s, staleWakes, rdy, aborted>>

\* switch (spin_yield_until(...)) of the spin-only version
SpinYield ==
    /\ Running
    /\ cpc = "spin_yield"
    /\ \E r \in SpinYieldUntil(state_, deadline) :
         /\ sync' = (sync \/ rel)
         /\ CASE r = "success" ->
                   /\ cpc' = "returned"
                   /\ result' = TRUE
                   /\ hist' = [hist EXCEPT !.spinEnd = r]
              [] r = "timeout" ->
                   /\ cpc' = "returned"
                   /\ result' = FALSE
                   /\ hist' = [TimeoutNote(hist, "spin") EXCEPT !.spinEnd = r]
              [] r = "advance" -> cpc' = "cas" /\ UNCHANGED <<result, hist>>
              [] r = "again" -> UNCHANGED <<cpc, result, hist>>
    /\ UNCHANGED <<alive, MayBlock, state_, rel, now, pvars, kind, timeout,
                   deadline, expected, rv, s, staleWakes, rdy, aborted>>

\* variant: a failed CAS reported as a timeout
CasFailResult_False == FALSE

\* tryWaitSlow(): return true after the failed CAS (Baton.h:372)
CasFailResult == TRUE

\* expected = INIT; CAS(state_, expected, WAITING, relaxed, acquire)
WaitCas ==
    /\ Running
    /\ cpc = "cas"
    /\ IF state_ = INIT
       THEN /\ state_' = WAITING
            /\ rel' = FALSE
            /\ expected' = INIT
            /\ cpc' = "futex"
            /\ hist' = [Note(hist, state_, WAITING) EXCEPT
                          !.cwrote = TRUE,
                          !.casLate = @ \/ Passed(deadline)]
            /\ UNCHANGED <<result, sync, aborted>>
       ELSE /\ expected' = state_
            /\ sync' = (sync \/ rel)
            /\ hist' = [hist EXCEPT !.casLate = @ \/ Passed(deadline)]
            /\ UNCHANGED <<state_, rel>>
            /\ IF state_ = EARLY_DELIVERY
               THEN /\ cpc' = "returned"
                    /\ result' = CasFailResult
                    /\ aborted' = aborted
               ELSE aborted' = "tryWaitSlow:371" /\ UNCHANGED <<cpc, result>>
    /\ UNCHANGED <<alive, MayBlock, now, pvars, kind, timeout, deadline, rv, s,
                   staleWakes, rdy>>

\* rv = MemoryIdler::futexWaitUntil(state_, WAITING, deadline): returns at
\* once when state_ is not WAITING or the deadline has passed, sleeps otherwise
FutexWaitUntil ==
    /\ Running
    /\ cpc = "futex"
    /\ hist' = [(IF state_ = WAITING /\ Passed(deadline)
                  THEN TimeoutNote(hist, "park") ELSE hist) EXCEPT
                  !.parkCalls = TRUE,
                  !.blocked = @ \/ (state_ = WAITING /\ ~Passed(deadline))]
    /\ IF state_ # WAITING
       THEN cpc' = "check_rv" /\ rv' = "woken"
       ELSE IF Passed(deadline)
       THEN cpc' = "check_rv" /\ rv' = "timed_out"
       ELSE cpc' = "parked" /\ rv' = rv
    /\ UNCHANGED <<alive, MayBlock, state_, rel, now, pvars, kind, timeout,
                   deadline, expected, s, result, sync, staleWakes, rdy,
                   aborted>>

\* futexWaitUntil returns because the deadline passed
ParkTimeout ==
    /\ Running
    /\ cpc = "parked"
    /\ Passed(deadline)
    /\ cpc' = "check_rv"
    /\ rv' = "timed_out"
    /\ hist' = TimeoutNote(hist, "park")
    /\ UNCHANGED <<alive, MayBlock, state_, rel, now, pvars, kind, timeout,
                   deadline, expected, s, result, sync, staleWakes, rdy,
                   aborted>>

\* futexWaitUntil returns spuriously (signal, spurious wake-up)
ParkSpurious ==
    /\ Running
    /\ cpc = "parked"
    /\ cpc' = "check_rv"
    /\ rv' = "woken"
    /\ UNCHANGED <<alive, MayBlock, state_, rel, now, pvars, kind, timeout,
                   deadline, expected, s, result, sync, staleWakes, rdy,
                   aborted, hist>>

\* variant: a return of futexWaitUntil other than timeout ends the wait
CheckRv_TrustWake ==
    /\ Running
    /\ cpc = "check_rv"
    /\ IF rv = "timed_out"
       THEN IF deadline = TimeMax
            THEN aborted' = "tryWaitSlow:380" /\ UNCHANGED <<cpc, result>>
            ELSE /\ cpc' = "store_timed_out"
                 /\ result' = result
                 /\ aborted' = aborted
       ELSE cpc' = "returned" /\ result' = TRUE /\ aborted' = aborted
    /\ UNCHANGED <<alive, MayBlock, state_, rel, now, pvars, kind, timeout,
                   deadline, expected, rv, s, sync, staleWakes, rdy, hist>>

\* if (rv == TIMEDOUT) { assert(deadline != max); ...
CheckRv ==
    /\ Running
    /\ cpc = "check_rv"
    /\ IF rv = "timed_out"
       THEN IF deadline = TimeMax
            THEN aborted' = "tryWaitSlow:380" /\ UNCHANGED <<cpc, hist>>
            ELSE /\ cpc' = "store_timed_out"
                 /\ hist' = hist
                 /\ aborted' = aborted
       ELSE cpc' = "reload" /\ UNCHANGED <<aborted, hist>>
    /\ UNCHANGED <<alive, MayBlock, state_, rel, now, pvars, kind, timeout,
                   deadline, expected, rv, s, result, sync, staleWakes, rdy>>

\* variant: a timeout that returns without its store
TimeoutStore_Keep(st) == st

\* tryWaitSlow(): state_.store(TIMED_OUT, relaxed) (Baton.h:381)
TimeoutStore(st) == TIMED_OUT

\* state_.store(TIMED_OUT, relaxed); return false;
StoreTimedOut ==
    /\ Running
    /\ cpc = "store_timed_out"
    /\ state_' = TimeoutStore(state_)
    /\ rel' = FALSE
    /\ cpc' = "returned"
    /\ result' = FALSE
    /\ hist' = [Note(hist, state_, state_') EXCEPT !.cwrote = TRUE]
    /\ UNCHANGED <<alive, MayBlock, now, pvars, kind, timeout, deadline, expected,
                   rv, s, sync, staleWakes, rdy, aborted>>

\* variant: a wait that takes the delivery away when it returns success
Reload_Consume ==
    /\ Running
    /\ cpc = "reload"
    /\ s' = state_
    /\ sync' = (sync \/ rel)
    /\ IF state_ \notin {WAITING, LATE_DELIVERY}
       THEN aborted' = "tryWaitSlow:406" /\ UNCHANGED <<cpc, result, state_>>
       ELSE /\ aborted' = aborted
            /\ IF ReloadDelivered(state_)
               THEN cpc' = "returned" /\ result' = TRUE /\ state_' = INIT
               ELSE cpc' = "futex" /\ result' = result /\ state_' = state_
    /\ UNCHANGED <<alive, MayBlock, rel, now, pvars, kind, timeout,
                   deadline, expected, rv, staleWakes, rdy, hist>>

\* s = state_.load(acquire); assert(WAITING or LATE_DELIVERY);
\* if (s == LATE_DELIVERY) return true; otherwise park again
Reload ==
    /\ Running
    /\ cpc = "reload"
    /\ s' = state_
    /\ sync' = (sync \/ rel)
    /\ IF state_ \notin {WAITING, LATE_DELIVERY}
       THEN aborted' = "tryWaitSlow:406" /\ UNCHANGED <<cpc, result>>
       ELSE /\ aborted' = aborted
            /\ IF ReloadDelivered(state_)
               THEN cpc' = "returned" /\ result' = TRUE
               ELSE cpc' = "futex" /\ result' = result
    /\ UNCHANGED <<alive, MayBlock, state_, rel, now, pvars, kind, timeout,
                   deadline, expected, rv, staleWakes, rdy, hist>>

(***************************************************************************)
(* ready(), reset(), the clock and wakes left over from earlier lifetimes   *)
(***************************************************************************)
\* ready(), called by any thread at any time; the record keeps the returned
\* value and what had happened in the lifetime when the load was made
ReadyCall ==
    /\ Running
    /\ rdy' = [called |-> TRUE,
               val |-> Ready(state_),
               st |-> state_,
               afterPost |-> (ppc = "done"),
               afterWait |-> (cpc = "returned" /\ result),
               fresh |-> (ppc = "idle" /\ cpc = "idle"),
               timedOut |-> hist.sawTimedOut]
    /\ UNCHANGED <<alive, MayBlock, state_, rel, now, pvars, cvars, staleWakes,
                   aborted, hist>>

\* reset(), called between lifetimes: no wait-family call is in progress and
\* post() has made its last access of state_ (its futexWake may still be due
\* when the waiter has seen LATE_DELIVERY and reuses the baton)
ResetAllowed ==
    /\ cpc \in {"idle", "returned"}
    /\ \/ ppc \in {"idle", "done"}
       \/ ppc = "wake" /\ cpc = "returned" /\ result /\ staleWakes < MaxStale

\* variant: an assertion that admits INIT, EARLY_DELIVERY and TIMED_OUT only
ResetAssert_Strict(st) == st \in {INIT, EARLY_DELIVERY, TIMED_OUT}

\* assert(state_.load(relaxed) != WAITING) of reset() and ~Baton()
\* (Baton.h:121, Baton.h:98)
ResetAssert(st) == st # WAITING

\* what a reset() or destructor call found
ResetNote(o, ok) ==
    [op |-> o, st |-> state_, owed |-> (ppc = "wake"), accepted |-> ok]

\* variant: reset() that leaves state_ as it is
ResetValue_Keep(st) == st

\* reset(): state_.store(INIT, relaxed) (Baton.h:139)
ResetValue(st) == INIT

\* assert(state_ != WAITING); state_.store(INIT, relaxed);
Reset ==
    /\ Running
    /\ ResetAllowed
    /\ IF ~ResetAssert(state_)
       THEN /\ aborted' = "reset:121"
            /\ hist' = [hist EXCEPT !.reset = ResetNote("reset", FALSE)]
            /\ UNCHANGED <<state_, rel, pvars, cvars, staleWakes, rdy>>
       ELSE /\ state_' = ResetValue(state_)
            /\ rel' = FALSE
            /\ staleWakes' = IF ppc = "wake" THEN staleWakes + 1
                             ELSE staleWakes
            /\ ppc' = "idle"
            /\ before' = INIT
            /\ cpc' = "idle"
            /\ kind' = "wait"
            /\ timeout' = 0
            /\ deadline' = TimeMax
            /\ expected' = INIT
            /\ rv' = "none"
            /\ s' = INIT
            /\ result' = FALSE
            /\ sync' = FALSE
            /\ rdy' = NoReady
            /\ hist' = [HistInit EXCEPT !.reset = ResetNote("reset", TRUE),
                                        !.reborn = TRUE]
            /\ aborted' = aborted
    /\ UNCHANGED <<alive, MayBlock, now>>

(***************************************************************************)
(* Use outside the lifecycle contract                                      *)
(***************************************************************************)
\* reset() called while a call of this lifetime is still in progress; the
\* threads inside post() and the wait go on with the reset word
ResetMisuse ==
    /\ Running
    /\ ~ResetAllowed
    /\ IF ~ResetAssert(state_)
       THEN /\ aborted' = "reset:121"
            /\ hist' = [hist EXCEPT !.reset = ResetNote("reset", FALSE)]
            /\ UNCHANGED <<state_, rel>>
       ELSE /\ state_' = ResetValue(state_)
            /\ rel' = FALSE
            /\ hist' = [hist EXCEPT !.reset = ResetNote("reset", TRUE),
                                    !.misreset = TRUE]
            /\ aborted' = aborted
    /\ UNCHANGED <<alive, MayBlock, now, pvars, cvars, staleWakes, rdy>>

\* ~Baton(), at any time: assert(state_ != WAITING), then the object is gone
Destroy ==
    /\ Running
    /\ IF ~ResetAssert(state_)
       THEN /\ aborted' = "~Baton:98"
            /\ alive' = alive
            /\ hist' = [hist EXCEPT !.reset = ResetNote("destroy", FALSE)]
       ELSE /\ alive' = FALSE
            /\ aborted' = aborted
            /\ hist' = [hist EXCEPT !.reset = ResetNote("destroy", TRUE)]
    /\ UNCHANGED <<MayBlock, state_, rel, now, pvars, cvars, staleWakes, rdy>>

\* post() called again after the post() of this lifetime has returned
PostAgain ==
    /\ ppc = "done"
    /\ hist.posts < MaxCalls
    /\ PostEnter

\* spin-only post() called from within a post() in progress (a handler that
\* interrupts it): the inner call asserts, stores and returns before the
\* outer call takes its next step
PostNested ==
    /\ Running
    /\ ~MayBlock
    /\ ppc \in {"spin_assert", "spin_store"}
    /\ hist.posts < MaxCalls
    /\ IF PostSpinAssertOk(state_)
       THEN /\ state_' = EARLY_DELIVERY
            /\ rel' = TRUE
            /\ hist' = [Note(hist, state_, EARLY_DELIVERY) EXCEPT
                          !.posts = @ + 1, !.nested = TRUE]
            /\ aborted' = aborted
       ELSE /\ aborted' = "post:152"
            /\ UNCHANGED <<state_, rel, hist>>
    /\ UNCHANGED <<alive, MayBlock, now, pvars, cvars, staleWakes, rdy>>

\* a wait-family call made after the wait of this lifetime has returned
WaitAgain(k, d, t) ==
    /\ cpc = "returned"
    /\ hist.waits < MaxCalls
    /\ WaitEnter(k, d, t)

\* the futexWake of a post() whose lifetime has ended arrives
StaleWake ==
    /\ Running
    /\ staleWakes > 0
    /\ FutexWake
    /\ staleWakes' = staleWakes - 1
    /\ UNCHANGED <<alive, MayBlock, state_, rel, now, pvars, kind, timeout,
                   deadline, expected, s, result, sync, rdy, aborted, hist>>

\* the steady clock advances
Tick ==
    /\ Running
    /\ now < MaxNow
    /\ now' = now + 1
    /\ UNCHANGED <<alive, MayBlock, state_, rel, pvars, cvars, staleWakes, rdy,
                   aborted, hist>>

Producer ==
    \/ PostCall
    \/ PostSpinAssert
    \/ PostSpinStore
    \/ PostLoad
    \/ PostCas
    \/ PostStore
    \/ PostWake

Consumer ==
    \/ TryWait
    \/ SpinPause
    \/ SpinYield
    \/ WaitCas
    \/ FutexWaitUntil
    \/ CheckRv
    \/ StoreTimedOut
    \/ Reload

Next ==
    \/ Producer
    \/ \E k \in WaitKinds, d \in Deadlines, t \in Timeouts : WaitCall(k, d, t)
    \/ TryWaitCall
    \/ Consumer
    \/ ParkTimeout
    \/ ParkSpurious
    \/ ReadyCall
    \/ Reset
    \/ StaleWake
    \/ Tick

Spec == Init /\ [][Next]_vars

\* post(), the wait-family calls and reset() between lifetimes, with
\* reset() and the destructor also called outside the lifecycle contract
NextMisuse ==
    \/ Producer
    \/ \E k \in WaitKinds, d \in Deadlines, t \in Timeouts : WaitCall(k, d, t)
    \/ Consumer
    \/ ParkTimeout
    \/ ParkSpurious
    \/ Reset
    \/ StaleWake
    \/ Tick
    \/ ResetMisuse
    \/ Destroy

MisuseSpec == Init /\ [][NextMisuse]_vars

\* one lifetime in which post() and the wait-family calls are repeated and
\* the destructor may run at any time
NextRepeat ==
    \/ Producer
    \/ \E k \in WaitKinds, d \in Deadlines, t \in Timeouts : WaitCall(k, d, t)
    \/ Consumer
    \/ ParkTimeout
    \/ ParkSpurious
    \/ Tick
    \/ PostAgain
    \/ PostNested
    \/ \E k \in WaitKinds, d \in Deadlines, t \in Timeouts : WaitAgain(k, d, t)
    \/ Destroy

RepeatSpec == Init /\ [][NextRepeat]_vars

\* Only the producer is scheduled fairly; the consumer may stop anywhere.
ProducerFairSpec == Spec /\ WF_vars(Producer)

\* Both threads are scheduled fairly: a call of post() that the lifetime
\* still owes is made and every enabled step of either thread is taken.
\* Spurious returns of the park operation and the clock are not forced.
FairSpec == Spec /\ WF_vars(Producer) /\ WF_vars(Consumer)

(***************************************************************************)
(* Properties                                                              *)
(***************************************************************************)
InWait == cpc \notin {"idle", "returned"}
InPost == ppc \notin {"idle", "done"}

\* how far post() has got: the call, the load (or the spin-only assertion),
\* the CAS (or the spin-only store), the store, the wake, the return
PostRank(p) ==
    CASE p = "idle" -> 0
      [] p \in {"load", "spin_assert"} -> 1
      [] p \in {"cas", "spin_store"} -> 2
      [] p = "store" -> 3
      [] p = "wake" -> 4
      [] OTHER -> 5
Returned == cpc = "returned"

\* C1: in blocking mode an unconditional wait() that is in progress always
\* returns (with success) when both threads are scheduled fairly, whatever
\* the interleaving with post() and however often the park operation
\* returns spuriously: no wake-up is lost.
C1_WaitReturns ==
    (MayBlock /\ kind = "wait" /\ InWait) ~> (Returned /\ result)

\* the consumer slept in the park operation, post() woke it and wait() returned
C1_Witness ==
    /\ MayBlock /\ kind = "wait" /\ Returned /\ result
    /\ hist.blocked /\ hist.wakes = 1 /\ rv = "woken" /\ ppc = "done"

\* C2: when a wait-family call has returned success, post() of the lifetime
\* has stored EARLY_DELIVERY or LATE_DELIVERY and the consumer has read that
\* release store with an acquire load.
C2_SuccessAfterDelivery ==
    (Returned /\ result) => (hist.delivered /\ sync /\ ppc \notin {"idle", "load", "spin_assert"})

\* a bounded wait returned success after sleeping in the park operation
C2_Witness ==
    Returned /\ result /\ kind = "try_wait_for" /\ hist.blocked /\ s = LATE_DELIVERY

\* C3: within a lifetime state_ changes only along INIT->EARLY_DELIVERY,
\* INIT->WAITING, WAITING->LATE_DELIVERY and WAITING->TIMED_OUT, and nothing
\* but reset() writes INIT.
C3_OnlyTableEdges == ~hist.badEdge

\* C4: once TIMED_OUT has been recorded the state stays TIMED_OUT for the
\* rest of the lifetime, no wake is issued and ready() stays false, whatever
\* a concurrent post() does.
C4_TimedOutIsFinal ==
    hist.sawTimedOut =>
        (state_ = TIMED_OUT /\ ~hist.wakeAfterTimedOut /\ ~Ready(state_))

\* C5 as stated: a post() that starts after a bounded wait returned timeout
\* trips no assertion, leaves state_ as it found it and issues no wake,
\* whether the wait timed out in the spin phase or in the park phase.
C5_PostAfterTimeoutNoOp ==
    hist.postAfterTimeout # "none" =>
        (Running /\ state_ = hist.stateAtPost /\ hist.wakes = 0)

\* C5 as amended: a post() that starts after a bounded wait returned timeout
\* trips no assertion, issues no wake and does not change the result of the
\* wait; after a timeout of the park phase it leaves state_ = TIMED_OUT, after
\* a timeout of the spin phase it finds INIT and stores EARLY_DELIVERY.
C5_PostAfterTimeout ==
    hist.postAfterTimeout # "none" =>
        /\ Running /\ hist.wakes = 0 /\ Returned /\ ~result
        /\ hist.postAfterTimeout = "park" =>
              (state_ = TIMED_OUT /\ hist.stateAtPost = TIMED_OUT)
        /\ hist.postAfterTimeout = "spin" =>
              /\ hist.stateAtPost = INIT
              /\ state_ = (IF ppc = "done" THEN EARLY_DELIVERY ELSE INIT)

\* post() has run to its end after the wait timed out in the park phase
C5_Witness ==
    hist.postAfterTimeout = "park" /\ ppc = "done" /\ MayBlock

C7_FalseOnlyIfNotDelivered ==
    (Returned /\ ~result) => ~hist.deliveredAtDecision

\* C8: a wait-family call made after post() returned succeeds on the fast
\* path: it never writes state_, never enters a spin helper and never
\* invokes the park operation.
C8_FastPathAfterPost ==
    (hist.postBeforeWait /\ cpc # "idle") =>
        /\ cpc \in {"try_wait", "returned"}
        /\ Returned => result
        /\ ~hist.cwrote /\ ~hist.spun /\ ~hist.parkCalls

\* post() had returned, then a wait-family call was made and has returned
C8_Witness ==
    hist.postBeforeWait /\ Returned /\ result /\ MayBlock /\ kind = "wait"

C10_ExpiredNeverParks ==
    /\ (hist.expiredAtCall /\ ppc = "idle") => ~hist.parkCalls
    /\ ~hist.casLate

\* C10 as amended: a bounded wait called after its deadline, with no post()
\* issued, returns timeout and the consumer never sleeps in the park
\* operation (when the spin phase reports advance the CAS is attempted
\* without a look at the deadline and the park operation reports timeout at
\* once).
C10_ExpiredNeverBlocks ==
    (hist.expiredAtCall /\ ppc = "idle") =>
        /\ ~hist.blocked /\ cpc # "parked"
        /\ Returned => ~result

\* the expired wait went through the CAS and the park operation and timed out
C10_Witness ==
    /\ hist.expiredAtCall /\ ppc = "idle" /\ Returned /\ ~result
    /\ hist.parkCalls /\ state_ = TIMED_OUT

\* C11 as stated: reset() and the destructor are accepted only in INIT,
\* EARLY_DELIVERY or TIMED_OUT; in WAITING, or in LATE_DELIVERY with the
\* futexWake of post() still due, they are stopped and state_ is unchanged.
C11_ResetOnlyWhenSettled ==
    hist.reset.op # "none" =>
        /\ hist.reset.accepted =>
              hist.reset.st \in {INIT, EARLY_DELIVERY, TIMED_OUT}
        /\ (hist.reset.st = WAITING
               \/ (hist.reset.st = LATE_DELIVERY /\ hist.reset.owed)) =>
              (~hist.reset.accepted /\ state_ = hist.reset.st)

\* C11 as amended: reset() and the destructor are stopped by their
\* assertion exactly when state_ is WAITING, and then state_ is unchanged;
\* in every other state, LATE_DELIVERY with the futexWake of post() still
\* due included, they are accepted and reset() stores INIT.
C11_ResetStoppedIffWaiting ==
    hist.reset.op # "none" =>
        /\ hist.reset.accepted <=> hist.reset.st # WAITING
        /\ ~hist.reset.accepted =>
              /\ state_ = WAITING
              /\ aborted = (IF hist.reset.op = "reset" THEN "reset:121"
                            ELSE "~Baton:98")
        /\ (hist.reset.accepted /\ hist.reset.op = "reset"
               /\ ~hist.misreset) => state_ = INIT
        /\ (hist.reset.accepted /\ hist.reset.op = "destroy") => ~alive

\* reset() was called while the consumer slept in WAITING and was stopped
C11_Witness ==
    /\ hist.reset.op = "reset" /\ ~hist.reset.accepted
    /\ hist.reset.st = WAITING /\ cpc = "parked" /\ aborted = "reset:121"

\* C12: reset() after a completed lifetime is accepted and leaves the baton
\* as the constructor does: state_ is INIT, ready() and try_wait() give
\* false, no release of the earlier post() is left to acquire, and in the
\* lifetime it starts a wait succeeds and ready() gives true only after the
\* post() of that lifetime has delivered.
C12_ResetIsFresh ==
    /\ (hist.reset.op = "reset" /\ ~hist.misreset) =>
          /\ hist.reset.accepted /\ Running
          /\ state_ = INIT /\ rel = FALSE
          /\ ~Ready(state_) /\ ~TryWaitResult(state_)
          /\ ppc = "idle" /\ cpc = "idle" /\ ~result /\ ~sync
    /\ hist.reborn =>
          /\ (rdy.called /\ rdy.fresh) => ~rdy.val
          /\ (rdy.called /\ rdy.val) => hist.delivered
          /\ (Returned /\ result) => hist.delivered

\* a baton that was reset after a lifetime ending in LATE_DELIVERY answered
\* ready() with false and then passed a second post()/wait pair
C12_Witness ==
    /\ hist.reborn /\ staleWakes > 0
    /\ rdy.called /\ rdy.fresh /\ ~rdy.val
    /\ Returned /\ result /\ ppc = "done"

\* C13 as stated: no call that breaks the lifecycle contract returns
\* normally: not a second wait-family call, not a second post(), not a
\* reset() or destructor call made while state_ is WAITING.
C13_EveryViolationStopped ==
    ~hist.misreset =>
        /\ hist.waits >= 2 => cpc = "try_wait"
        /\ hist.posts >= 2 => ppc \in {"load", "spin_assert"}
        /\ (hist.reset.op # "none" /\ hist.reset.st = WAITING) =>
              ~hist.reset.accepted

\* C13 as amended: a repeated wait-family call is stopped by the assertion
\* of try_wait() exactly when an earlier wait of the lifetime published
\* WAITING; a repeated post() is never stopped in spin-only mode and in
\* blocking mode is stopped when it loads EARLY_DELIVERY or LATE_DELIVERY
\* and returns without effect when it loads TIMED_OUT; reset() and the
\* destructor are always stopped while state_ is WAITING.
C13_ViolationsStoppedWhenVisible ==
    ~hist.misreset =>
        /\ (hist.waits >= 2 /\ cpc # "try_wait") => ~hist.wroteAtCall
        /\ (hist.waits >= 2 /\ cpc = "try_wait" /\ hist.wroteAtCall) =>
              ~TryWaitAssert(state_)
        /\ (hist.waits >= 2 /\ cpc = "try_wait"
               /\ aborted = "try_wait:223") => hist.wroteAtCall
        /\ ~MayBlock => aborted # "post:152"
        /\ (MayBlock /\ hist.posts >= 2 /\ ppc = "load") =>
              /\ state_ \in {EARLY_DELIVERY, LATE_DELIVERY, TIMED_OUT}
              /\ aborted = "post:163" =>
                    before \in {EARLY_DELIVERY, LATE_DELIVERY}
        /\ (MayBlock /\ hist.posts >= 2 /\ ppc # "load") =>
              /\ before = TIMED_OUT
              /\ ppc \in {"cas", "done"}
              /\ aborted \notin {"post:163", "post:174"}
        /\ (hist.reset.op # "none" /\ hist.reset.st = WAITING) =>
              (~hist.reset.accepted /\ ~Running)

\* a second wait made after a wait that returned on EARLY_DELIVERY has
\* returned success as well, and no assertion has failed
C13_Witness ==
    /\ hist.waits = 2 /\ ~hist.wroteAtCall /\ Returned /\ result
    /\ state_ = EARLY_DELIVERY /\ aborted = "none" /\ ~hist.misreset

\* C14: post() never blocks.  While it is in progress one of its own steps
\* is enabled whatever the consumer is doing; every change of its position
\* moves it forward through load, CAS, store and wake (so it takes each at
\* most once) or is the reset() that ends the lifetime; and with only the
\* producer scheduled it reaches its return.
C14_PostNeverBlocks ==
    /\ []((InPost /\ Running) => ENABLED Producer)
    /\ [][ppc' # ppc =>
             \/ PostRank(ppc') > PostRank(ppc)
             \/ ppc' = "idle" /\ ppc \in {"wake", "done"}]_vars
    /\ (InPost ~> (ppc \in {"done", "idle"}))

\* post() has gone through load, failed CAS, store and wake while the
\* consumer stood still between publishing WAITING and parking
C14_Witness ==
    /\ MayBlock /\ ppc = "done" /\ before = WAITING /\ hist.wakes = 1
    /\ cpc = "futex" /\ ~hist.parkCalls /\ state_ = LATE_DELIVERY

\* C15: while no wait-family call of the lifetime has been made, state_ is
\* INIT or EARLY_DELIVERY, so a try_wait() made then never trips its
\* assertion; it returns true exactly when the value it loaded is
\* EARLY_DELIVERY and it leaves state_ alone; after try_wait() calls that
\* returned false the wait that follows runs without a failed assertion and
\* succeeds only after post() has delivered.
C15_TryWaitBeforeWait ==
    /\ [](/\ cpc = "idle" => TryWaitAssert(state_)
          /\ aborted # "try_wait:223"
          /\ (kind = "try_wait" /\ cpc = "idle") => (~result /\ s = INIT)
          /\ (kind = "try_wait" /\ cpc = "returned") =>
                /\ result /\ s = EARLY_DELIVERY
                /\ state_ = EARLY_DELIVERY /\ hist.delivered /\ sync
          /\ hist.tried => (Running /\ (Returned /\ result => hist.delivered)))
    /\ [][TryWaitCall => (state_' = state_ /\ rel' = rel
                             /\ hist'.cwrote = hist.cwrote)]_vars

\* try_wait() returned false while post() was in progress; the wait made
\* afterwards published WAITING, slept and returned on LATE_DELIVERY
C15_Witness ==
    /\ hist.tried /\ kind \in WaitKinds /\ Returned /\ result
    /\ hist.blocked /\ s = LATE_DELIVERY /\ hist.postAtCall # "idle"

\* C16: ready() has no effect: whatever post(), the wait-family call and
\* reset() are doing, a call of ready() leaves state_ and every thread
\* where it was, trips no assertion, and its result is true exactly when
\* the value it loaded is EARLY_DELIVERY or LATE_DELIVERY.
C16_ReadyHasNoEffect ==
    /\ [](rdy.called =>
             (rdy.val <=> rdy.st \in {EARLY_DELIVERY, LATE_DELIVERY}))
    /\ [][ReadyCall =>
             /\ UNCHANGED <<state_, rel, aborted, alive, pvars, cvars>>
             /\ rdy'.st = state_]_vars

\* ready() loaded WAITING while the consumer slept and post() stood before
\* its store, and returned false
C16_Witness ==
    /\ rdy.called /\ rdy.st = WAITING /\ ~rdy.val
    /\ cpc = "parked" /\ ppc = "store" /\ state_ = WAITING

\* C17: in blocking mode post() calls futexWake exactly when it has stored
\* LATE_DELIVERY over an observed WAITING, and after that store; the paths
\* through INIT->EARLY_DELIVERY and through an observed TIMED_OUT issue no
\* wake, a post() issues at most one, never before the consumer published
\* WAITING, and spin-only mode issues none.
C17_WakeOnlyAfterLateStore ==
    /\ hist.wakes <= 1
    /\ ~hist.wakeBeforeWaiting
    /\ ~MayBlock => (hist.wakes = 0 /\ ppc # "wake")
    /\ ppc = "wake" =>
          (before = WAITING /\ hist.delivered /\ hist.sawWaiting /\ hist.wakes = 0)
    /\ hist.wakes = 1 =>
          (before = WAITING /\ hist.delivered /\ hist.sawWaiting /\ ppc = "done")
    /\ (MayBlock /\ ppc = "done") => (hist.wakes = 1 <=> before = WAITING)
    /\ (ppc = "done" /\ before \in {INIT, TIMED_OUT}) => hist.wakes = 0

\* post() stored LATE_DELIVERY over WAITING and its one wake has just ended
\* the sleep of the consumer
C17_Witness ==
    /\ MayBlock /\ ppc = "done" /\ before = WAITING /\ hist.wakes = 1
    /\ state_ = LATE_DELIVERY /\ cpc = "check_rv" /\ rv = "woken"
    /\ hist.blocked

\* C18: a return of the park operation other than timeout never ends the
\* wait by itself.  The consumer loads state_ again; the value is always
\* WAITING or LATE_DELIVERY; on WAITING (a spurious wake-up, or a wake left
\* from an earlier lifetime) it parks again; a wait that has parked returns
\* success only with LATE_DELIVERY re-loaded.
C18_WakeIsRechecked ==
    /\ [](/\ cpc = "reload" => state_ \in {WAITING, LATE_DELIVERY}
          /\ aborted # "tryWaitSlow:406"
          /\ (cpc \in {"futex", "parked"} /\ rv = "woken") =>
                (s = WAITING /\ ~result)
          /\ (Returned /\ result /\ hist.parkCalls) =>
                (s = LATE_DELIVERY /\ hist.delivered))
    /\ [][(cpc = "check_rv" /\ rv # "timed_out" /\ cpc' # cpc) =>
             (cpc' = "reload" /\ result' = result)]_vars
    /\ [][(cpc = "reload" /\ cpc' # cpc) =>
             IF state_ = LATE_DELIVERY
             THEN cpc' = "returned" /\ result' /\ s' = LATE_DELIVERY
             ELSE cpc' = "futex" /\ s' = WAITING /\ ~result']_vars

\* a wake left from an earlier lifetime ended the sleep of the consumer,
\* which found WAITING and sleeps again
C18_Witness ==
    /\ cpc = "parked" /\ rv = "woken" /\ s = WAITING /\ state_ = WAITING
    /\ hist.reborn /\ hist.wakes = 0 /\ ppc = "idle"

\* C19: when the spin phase of a wait-family call ends with success or with
\* timeout the call returns at once; the consumer has written nothing to
\* state_ and has not invoked the park operation; state_ has never been
\* WAITING or TIMED_OUT in the lifetime, so post() stores no LATE_DELIVERY
\* and issues no wake.  WAITING and TIMED_OUT appear only after the spin
\* helper reported advance.
C19_SpinEndWritesNothing ==
    /\ hist.spinEnd \in {"success", "timeout"} =>
          /\ Returned /\ (result <=> hist.spinEnd = "success")
          /\ result => hist.delivered
          /\ ~hist.cwrote /\ ~hist.parkCalls /\ ~hist.blocked
          /\ ~hist.sawWaiting /\ ~hist.sawTimedOut
          /\ state_ \in {INIT, EARLY_DELIVERY}
          /\ hist.wakes = 0 /\ ppc \notin {"store", "wake"}
          /\ before # WAITING
    /\ (hist.cwrote \/ hist.sawWaiting \/ hist.sawTimedOut \/ hist.parkCalls) =>
          (MayBlock /\ hist.spinEnd = "advance")

\* a bounded wait timed out in its spin phase while post() stood before its
\* CAS; state_ is still INIT
C19_Witness ==
    /\ MayBlock /\ hist.spinEnd = "timeout" /\ Returned /\ ~result
    /\ state_ = INIT /\ ppc = "cas" /\ ~hist.cwrote

\* C20: in blocking mode the consumer's CAS INIT->WAITING is attempted only
\* while state_ is INIT or EARLY_DELIVERY; when it fails the value it
\* observed is EARLY_DELIVERY, the assertion on it holds, and the wait has
\* returned success with the post acquired, having neither parked nor
\* written state_.
C20_FailedCasSeesEarly ==
    /\ cpc = "cas" => (MayBlock /\ state_ \in {INIT, EARLY_DELIVERY})
    /\ aborted # "tryWaitSlow:371"
    /\ expected # INIT =>
          /\ MayBlock /\ expected = EARLY_DELIVERY
          /\ Returned /\ result /\ sync /\ hist.delivered
          /\ ~hist.parkCalls /\ ~hist.blocked /\ ~hist.cwrote
          /\ state_ = EARLY_DELIVERY /\ hist.wakes = 0

\* post() stored EARLY_DELIVERY between the end of the spin phase and the
\* consumer's CAS, which failed
C20_Witness ==
    /\ MayBlock /\ expected = EARLY_DELIVERY /\ Returned /\ result
    /\ hist.spinEnd = "advance" /\ hist.postAtCall = "idle" /\ ppc = "done"

\* C21: in a blocking-mode lifetime with one post() and at most one
\* wait-family call, post() loads only INIT, WAITING or TIMED_OUT, a failed
\* CAS INIT->EARLY_DELIVERY leaves it holding WAITING or TIMED_OUT, it goes
\* on to its store only with WAITING, and none of its assertions fails.
C21_PostSeesNoDelivery ==
    /\ aborted \notin {"post:152", "post:163", "post:174"}
    /\ MayBlock =>
          /\ ppc = "load" => state_ \in {INIT, WAITING, TIMED_OUT}
          /\ ppc = "cas" =>
                /\ before \in {INIT, WAITING, TIMED_OUT}
                /\ before = INIT => state_ \in {INIT, WAITING, TIMED_OUT}
          /\ ppc \in {"store", "wake"} => before = WAITING
          /\ ppc = "done" => before \in {INIT, WAITING, TIMED_OUT}

\* post() was called in INIT, the consumer published WAITING and timed out,
\* and post() has returned holding TIMED_OUT
C21_Witness ==
    /\ MayBlock /\ ppc = "done" /\ before = TIMED_OUT
    /\ hist.stateAtPost = INIT /\ hist.postAtCall = "idle" /\ Returned /\ ~result

\* C22: in spin-only mode post() may be repeated, back to back or from
\* within a post() in progress: every call finds INIT or EARLY_DELIVERY,
\* trips no assertion and leaves EARLY_DELIVERY, which is then never
\* replaced, so the state after several calls is the state after one.
C22_SpinOnlyPostIdempotent ==
    ~MayBlock =>
        /\ aborted # "post:152"
        /\ state_ \in {INIT, EARLY_DELIVERY}
        /\ hist.delivered <=> state_ = EARLY_DELIVERY
        /\ (hist.posts >= 1 /\ ppc = "done") => (state_ = EARLY_DELIVERY /\ rel)
        /\ hist.nested => state_ = EARLY_DELIVERY

\* a post() and a post() called from within it have both returned and
\* state_ is EARLY_DELIVERY
C22_Witness ==
    /\ ~MayBlock /\ hist.nested /\ hist.posts >= 2 /\ ppc = "done"
    /\ state_ = EARLY_DELIVERY /\ aborted = "none"

\* C23: once the wait-family call of a lifetime has returned, with either
\* result and wherever post() stands, state_ is not WAITING and does not
\* become WAITING before reset(); a reset() or destructor call made after
\* the wait returned passes its assertion, so the assertion fails only
\* while a wait is in progress.
C23_NotWaitingAfterReturn ==
    /\ Returned => state_ # WAITING
    /\ (hist.reset.op # "none" /\ ~hist.reset.accepted) => InWait
    /\ aborted \in {"reset:121", "~Baton:98"} => InWait

\* the wait timed out in the park phase and the waiter destroyed the baton
\* while post() stood before its CAS
C23_Witness ==
    /\ Returned /\ ~result /\ hist.timeoutPhase = "park" /\ ppc = "cas"
    /\ hist.reset.op = "destroy" /\ hist.reset.accepted /\ ~alive

\* C24: an unconditional wait() never ends by timeout: in a lifetime whose
\* wait is wait() no helper reports timeout, the assertion on the deadline
\* in the park-timeout path does not fail, state_ never becomes TIMED_OUT,
\* and wait() has returned only with success and state_ EARLY_DELIVERY or
\* LATE_DELIVERY.
C24_WaitNeverTimesOut ==
    (kind = "wait" /\ cpc # "idle") =>
        /\ aborted # "tryWaitSlow:380"
        /\ rv # "timed_out" /\ cpc # "store_timed_out"
        /\ hist.timeoutPhase = "none" /\ hist.spinEnd # "timeout"
        /\ ~hist.sawTimedOut /\ state_ # TIMED_OUT
        /\ Returned => (result /\ state_ \in {EARLY_DELIVERY, LATE_DELIVERY})

\* wait() slept while the clock ran to its end, was woken by post() and
\* returned on LATE_DELIVERY
C24_Witness ==
    /\ kind = "wait" /\ Returned /\ result /\ state_ = LATE_DELIVERY
    /\ hist.blocked /\ now = MaxNow /\ ~hist.postBeforeWait

\* C25: after a wait-family call has returned success the delivery is
\* stable: post() has made its last write, state_ is EARLY_DELIVERY or
\* LATE_DELIVERY and no step changes it until reset(), whatever steps of
\* post() remain, and every ready() called in that time returns true.
C25_DeliveryIsStable ==
    /\ []((Returned /\ result) =>
             /\ state_ \in {EARLY_DELIVERY, LATE_DELIVERY}
             /\ ppc \in {"wake", "done"}
             /\ ~hist.sawTimedOut)
    /\ [](rdy.called /\ rdy.afterWait => rdy.val)
    /\ [][(Returned /\ result /\ Returned') =>
             (state_' = state_ /\ rel' = rel /\ result')]_vars

\* the wait returned on LATE_DELIVERY and ready() was called and returned
\* true while post() still stood before its futexWake
C25_Witness ==
    /\ Returned /\ result /\ state_ = LATE_DELIVERY /\ ppc = "wake"
    /\ rdy.called /\ rdy.afterWait /\ rdy.val /\ ~rdy.afterPost

====
